---- MODULE Spec2Model ----
(***************************************************************************)
(* Model of src/main.py: the hourly paper-trading cycle of the tracker.    *)
(*                                                                         *)
(* run_hourly_cycle loads the tracker CSV, re-fetches every PENDING        *)
(* position (polite_request), scans the paginated market listing           *)
(* (fetch_all_active_markets), appends the accepted markets and saves.     *)
(* One step of the model is one answer of the upstream API, or the part    *)
(* of the cycle that runs between two requests.                            *)
(***************************************************************************)
EXTENDS Integers, Sequences, FiniteSets, TLC

VARIABLES
    pc,               \* position of the process: idle, resolve, fetch, scan, crashed
    now,              \* the clock, in hours: the cycle's datetime.utcnow()
    listing,          \* upstream: the pages the listing endpoint serves
    file_tracker,     \* TRACKING_FILE, the persisted ledger (rows of the CSV)
    file_history,     \* HISTORY_FILE, the number of rows of the append-only log
    df_tracker,       \* run_hourly_cycle: the ledger in memory
    pending,          \* run_hourly_cycle: indexes of df_tracker[pending_mask] still to visit
    m,                \* run_hourly_cycle: the market of the last successful re-fetch
    new_history_rows, \* run_hourly_cycle: history rows of this cycle
    depth,            \* polite_request: 429 answers received by the call in progress
    all_markets,      \* fetch_all_active_markets
    cursor,           \* fetch_all_active_markets
    page_count,       \* fetch_all_active_markets
    retry_count,      \* fetch_all_active_markets
    served,           \* upstream: listing requests answered with a page in this scan
    failed,           \* upstream: some listing request of this scan came back absent
    df_history,       \* run_hourly_cycle: the number of rows of the history as loaded
    other             \* a second invocation of run_hourly_cycle beside the first

vars == <<pc, now, listing, file_tracker, file_history, df_tracker, pending, m,
          new_history_rows, depth, all_markets, cursor, page_count, retry_count,
          served, failed, df_history, other>>

---------------------------------------------------------------------------
(* Configuration, src/main.py lines 11-14. *)
FEE_CENTS == 2
MIN_PROBABILITY == 80
MAX_PROBABILITY == 97
HOURS_AHEAD == 48
\* line 56: `if retry_count > 3`
RETRY_LIMIT == 3

(* Bounds of the model. *)
MaxCycles == 3        \* invocations of run_hourly_cycle
MaxPages == 2         \* pages of the upstream listing
MaxRateLimited == 2   \* consecutive 429 answers to one polite_request call

---------------------------------------------------------------------------
(* Python values. *)
None == "<None>"
NaN == "<NaN>"
NoMarket == [status |-> None, yes_bid |-> 0, yes_ask |-> 0, result |-> None]

(* What one HTTP exchange can produce besides a 429: a 200 with a JSON     *)
(* body, another status, or an exception of requests.get.                  *)
Absent == [absent |-> TRUE]
EmptyJson == [empty |-> TRUE]

\* `if data:` / `if not data:` on the value polite_request returns
Truthy(data) == data # Absent /\ data # EmptyJson

\* str.upper() on the results the code passes to it
upper(s) == CASE s = "yes" -> "YES" [] s = "no" -> "NO" [] OTHER -> s

\* pd.to_datetime(close_str): the close times upstream sends, in hours
TimeOf == ("T00" :> 0) @@ ("T10" :> 10) @@ ("T60" :> 60)
Parses(close_str) == close_str \in DOMAIN TimeOf
to_datetime(close_str) == TimeOf[close_str]

---------------------------------------------------------------------------
(* Upstream data. *)
\* a market object of the listing; missing holds the keys the JSON object
\* does not have
Market(ticker, title, yes_bid, yes_ask, close_time) ==
    [ticker |-> ticker, title |-> title, yes_bid |-> yes_bid,
     yes_ask |-> yes_ask, close_time |-> close_time, missing |-> {}]

\* the same object without the key k: what the record holds under k is
\* not looked at any more
Without(mk, k) == [mk EXCEPT !.missing = mk.missing \cup {k}]

\* dict.get(key, default) on a market object of the listing
get(mk, key, default) == IF key \in mk.missing THEN default ELSE mk[key]

\* the markets the listing of the full cycle draws from
Catalogue ==
    { Market("A", "Will A happen?", 95, 97, "T10"),
      Market("B", "Will B happen?", 15, 17, "T10") }

\* a page of the listing: has_markets is `'markets' in data`
Page(has_markets, markets, c) ==
    [has_markets |-> has_markets, markets |-> markets, cursor |-> c]

Tokens == <<"c1", "c2", "c3", "c4">>
PageIndex(c) == IF c = None THEN 1 ELSE CHOOSE i \in 1..Len(Tokens) : Tokens[i] = c

PageContents ==
    {[has_markets |-> FALSE, markets |-> <<>>], [has_markets |-> TRUE, markets |-> <<>>]}
    \cup {[has_markets |-> TRUE, markets |-> <<mk>>] : mk \in Catalogue}

\* listings of n pages: page i points to page i+1, the last page has no
\* cursor field or an empty one
ListingsOf(n) ==
    { [i \in 1..n |-> Page(f[i].has_markets, f[i].markets,
                           IF i < n THEN Tokens[i + 1] ELSE last)] :
        f \in [1..n -> PageContents], last \in {None, ""} }
Listings == UNION { ListingsOf(n) : n \in 1..MaxPages }

\* the listings of the full cycle: every page has its markets key and the
\* last page has no cursor field
CycleListings ==
    { l \in Listings : l[Len(l)].cursor = None /\ \A i \in 1..Len(l) : l[i].has_markets }

\* the answers of the single-market endpoint
MarketBodies ==
    { [status |-> "active",  yes_bid |-> 90, yes_ask |-> 93, result |-> ""],
      [status |-> "settled", yes_bid |-> 99, yes_ask |-> 100, result |-> "yes"],
      [status |-> "settled", yes_bid |-> 0,  yes_ask |-> 1, result |-> "no"],
      [status |-> "settled", yes_bid |-> 90, yes_ask |-> 93, result |-> "void"] }

---------------------------------------------------------------------------
(* The tabular codec: an empty CSV field is read back as NaN, and NaN is    *)
(* written as an empty field.                                              *)
read_csv(file) ==
    [i \in 1..Len(file) |->
        IF file[i].result = "" THEN [file[i] EXCEPT !.result = NaN] ELSE file[i]]

to_csv(df) ==
    [i \in 1..Len(df) |->
        IF df[i].result = NaN THEN [df[i] EXCEPT !.result = ""] ELSE df[i]]

---------------------------------------------------------------------------
(* run_hourly_cycle, part 2: one PENDING position and its re-fetched market *)

\* mutant of pending_mask: the loop visits every row
pending_mask_every_row(df) ==
    [i \in 1..Len(df) |-> i]

\* df_tracker[pending_mask]: the indexes of the PENDING rows, in order
pending_mask(df) ==
    LET Idx == [i \in 1..Len(df) |-> i]
    IN  SelectSeq(Idx, LAMBDA i : df[i].status = "PENDING")

\* mutant of current_price: the NO side is valued from the bid
current_price_from_bid(row, mkt) ==
    IF row.fav_side = "YES" THEN mkt.yes_bid ELSE 100 - mkt.yes_bid

\* lines 123-128
current_price(row, mkt) ==
    IF row.fav_side = "YES" THEN mkt.yes_bid ELSE 100 - mkt.yes_ask

\* mutant of realized_pnl: the fee is charged on a win only
realized_pnl_no_fee_on_loss(row, did_win) ==
    IF did_win THEN (100 - row.entry_cost) - FEE_CENTS
    ELSE 0 - row.entry_cost

\* line 157
realized_pnl(row, did_win) ==
    IF did_win THEN (100 - row.entry_cost) - FEE_CENTS
    ELSE (0 - row.entry_cost) - FEE_CENTS

\* mutant of update_position: the settlement does not record the result
update_position_without_result(row, mkt) ==
    LET priced == [row EXCEPT !.current_price = current_price(row, mkt)]
    IN  IF mkt.status = "settled" /\ mkt.result \in {"yes", "no"}
        THEN [priced EXCEPT !.status = "SETTLED",
                            !.pnl = realized_pnl(row, upper(mkt.result) = row.fav_side)]
        ELSE priced

\* mutant of update_position: any result of a settled market settles the row
update_position_settling_void(row, mkt) ==
    LET priced == [row EXCEPT !.current_price = current_price(row, mkt)]
    IN  IF mkt.status = "settled"
        THEN LET winner == upper(mkt.result)
                 did_win == (winner = row.fav_side)
             IN  [priced EXCEPT !.status = "SETTLED",
                                !.result = winner,
                                !.pnl = realized_pnl(row, did_win)]
        ELSE priced

\* lines 131 and 152-161: the row of df_tracker after a successful re-fetch
update_position(row, mkt) ==
    LET priced == [row EXCEPT !.current_price = current_price(row, mkt)]
    IN  IF mkt.status = "settled" /\ mkt.result \in {"yes", "no"}
        THEN LET winner == upper(mkt.result)
                 did_win == (winner = row.fav_side)
             IN  [priced EXCEPT !.status = "SETTLED",
                                !.result = winner,
                                !.pnl = realized_pnl(row, did_win)]
        ELSE priced

\* lines 143-149
history_row(t, ticker, mkt) ==
    [timestamp |-> t, ticker |-> ticker, yes_bid |-> mkt.yes_bid,
     yes_ask |-> mkt.yes_ask, status |-> mkt.status]

---------------------------------------------------------------------------
(* run_hourly_cycle, part 3: the scan of the listed markets *)

\* mutant of favorite: the NO side is priced from the ask and its test is strict
favorite_no_side_off(mk) ==
    IF mk.yes_bid >= MIN_PROBABILITY
    THEN [fav |-> "YES", cost |-> mk.yes_ask]
    ELSE IF mk.yes_bid < 100 - MIN_PROBABILITY
         THEN [fav |-> "NO", cost |-> 100 - mk.yes_ask]
         ELSE [fav |-> "", cost |-> 0]

\* lines 187-196; fav = "" stands for the `continue` of the else branch
favorite(mk) ==
    LET yes_bid == get(mk, "yes_bid", 0)
        yes_ask == get(mk, "yes_ask", 0)
    IN  IF yes_bid >= MIN_PROBABILITY
        THEN [fav |-> "YES", cost |-> yes_ask]
        ELSE IF yes_bid <= 100 - MIN_PROBABILITY
             THEN [fav |-> "NO", cost |-> 100 - yes_bid]
             ELSE [fav |-> "", cost |-> 0]

\* lines 180-185: the close time is present, parses and lies in the window
in_window(mk, t) ==
    LET close_str == get(mk, "close_time", None)
    IN  /\ close_str # None /\ close_str # ""
        /\ Parses(close_str)
        /\ ~(to_datetime(close_str) > t + HOURS_AHEAD \/ to_datetime(close_str) < t)

\* mutant of accepted: no upper limit on the cost
accepted_at_any_high_cost(mk, tracked_tickers, t) ==
    /\ mk.ticker \notin tracked_tickers
    /\ in_window(mk, t)
    /\ favorite(mk).fav # ""
    /\ ~(favorite(mk).cost < MIN_PROBABILITY)

\* lines 177-198: the market passes every `continue`
accepted(mk, tracked_tickers, t) ==
    /\ mk.ticker \notin tracked_tickers
    /\ in_window(mk, t)
    /\ favorite(mk).fav # ""
    /\ ~(favorite(mk).cost < MIN_PROBABILITY \/ favorite(mk).cost > MAX_PROBABILITY)

\* lines 201-205
new_row(mk, t) ==
    [ticker |-> mk.ticker, question |-> mk.title, fav_side |-> favorite(mk).fav,
     entry_cost |-> favorite(mk).cost, current_price |-> favorite(mk).cost,
     status |-> "PENDING", open_date |-> t, close_date |-> to_datetime(mk.close_time),
     result |-> "", pnl |-> 0]

\* mutant of tracked_tickers_of: only the open positions count as tracked
tracked_tickers_of_pending(df) ==
    {df[i].ticker : i \in {j \in 1..Len(df) : df[j].status = "PENDING"}}

\* line 174: tracked_tickers is read once, before the loop
tracked_tickers_of(df) == {df[i].ticker : i \in 1..Len(df)}

\* lines 176-205: new_tracker_rows
scan_markets(markets, df, t) ==
    LET kept == SelectSeq(markets, LAMBDA mk : accepted(mk, tracked_tickers_of(df), t))
    IN  [i \in 1..Len(kept) |-> new_row(kept[i], t)]

\* mutant of concat_rows: the new rows are put in front of the old ones
concat_rows_in_front(df, new_tracker_rows) ==
    IF new_tracker_rows # <<>> THEN new_tracker_rows \o df ELSE df

\* lines 210-211
concat_rows(df, new_tracker_rows) ==
    IF new_tracker_rows # <<>> THEN df \o new_tracker_rows ELSE df

---------------------------------------------------------------------------
(* The process *)

\* what polite_request returns for an answer that is not a 429: lines 23-34
polite_request(r) ==
    IF r.status_code = 200 THEN r.json ELSE Absent

\* the answers to GET /markets/<ticker> other than a 429; status_code 0
\* stands for an exception of requests.get
MarketAnswers ==
    {[status_code |-> 200, json |-> [market |-> b]] : b \in MarketBodies}
    \cup {[status_code |-> 200, json |-> EmptyJson],
          [status_code |-> 500, json |-> EmptyJson],
          [status_code |-> 0, json |-> EmptyJson]}

\* the answers to GET /markets?cursor=c other than a 429
ListingAnswers(c) ==
    {[status_code |-> 200, json |-> listing[PageIndex(c)]],
     [status_code |-> 200, json |-> EmptyJson],
     [status_code |-> 500, json |-> EmptyJson],
     [status_code |-> 0, json |-> EmptyJson]}

\* no second invocation is running
NoOther ==
    [pc |-> "idle", df_tracker |-> <<>>, df_history |-> 0, now |-> 0, during |-> FALSE,
     overwrote |-> <<>>, saved_at |-> 0, saved_during |-> FALSE]

Init ==
    /\ pc = "idle"
    /\ now = 0
    /\ listing \in CycleListings
    /\ file_tracker = <<>>
    /\ file_history = 0
    /\ df_tracker = <<>>
    /\ pending = <<>>
    /\ m = NoMarket
    /\ new_history_rows = <<>>
    /\ depth = 0
    /\ all_markets = <<>>
    /\ cursor = None
    /\ page_count = 0
    /\ retry_count = 0
    /\ served = 0
    /\ failed = FALSE
    /\ df_history = 0
    /\ other = NoOther

\* lines 83-109, in a new process (its locals are fresh), after a run that
\* finished or one that stopped: load the files, take the clock, select the
\* PENDING rows
StartCycle ==
    /\ pc \in {"idle", "crashed"}
    /\ now < MaxCycles
    /\ pc' = "resolve"
    /\ now' = now + 1
    /\ df_tracker' = read_csv(file_tracker)
    /\ pending' = pending_mask(read_csv(file_tracker))
    /\ new_history_rows' = <<>>
    /\ m' = NoMarket
    /\ depth' = 0
    /\ all_markets' = <<>>
    /\ cursor' = None
    /\ page_count' = 0
    /\ retry_count' = 0
    /\ served' = 0
    /\ failed' = FALSE
    /\ UNCHANGED <<listing, file_tracker, file_history>>
    /\ df_history' = file_history
    /\ UNCHANGED other

\* lines 25-28: the request in progress is answered 429; polite_request
\* sleeps and calls itself with the same url and params
RateLimited ==
    /\ pc \in {"resolve", "fetch"}
    /\ pc = "resolve" => pending # <<>>
    /\ depth < MaxRateLimited
    /\ depth' = depth + 1
    /\ UNCHANGED <<pc, now, listing, file_tracker, file_history, df_tracker, pending,
                   m, new_history_rows, all_markets, cursor, page_count,
                   retry_count, served, failed>>
    /\ UNCHANGED <<df_history, other>>

\* mutant of ResolveWith: an absent answer is logged as a quote of 0/0
ResolveWith_logging_absent(r) ==
    /\ pc = "resolve"
    /\ pending # <<>>
    /\ LET data == polite_request(r)
           index == Head(pending)
           row == df_tracker[index]
       IN  IF Truthy(data)
           THEN /\ m' = data.market
                /\ df_tracker' = [df_tracker EXCEPT ![index] = update_position(row, data.market)]
                /\ new_history_rows' =
                       Append(new_history_rows, history_row(now, row.ticker, data.market))
           ELSE /\ new_history_rows' =
                       Append(new_history_rows, history_row(now, row.ticker, NoMarket))
                /\ UNCHANGED <<m, df_tracker>>
    /\ pending' = Tail(pending)
    /\ depth' = 0
    /\ UNCHANGED <<pc, now, listing, file_tracker, file_history, all_markets, cursor,
                   page_count, retry_count, served, failed>>
    /\ UNCHANGED <<df_history, other>>

\* mutant of ResolveWith: the ledger is written after every row
ResolveWith_saving_each_row(r) ==
    /\ pc = "resolve"
    /\ pending # <<>>
    /\ LET data == polite_request(r)
           index == Head(pending)
           row == df_tracker[index]
       IN  IF Truthy(data)
           THEN /\ m' = data.market
                /\ df_tracker' = [df_tracker EXCEPT ![index] = update_position(row, data.market)]
                /\ new_history_rows' =
                       Append(new_history_rows, history_row(now, row.ticker, data.market))
           ELSE UNCHANGED <<m, df_tracker, new_history_rows>>
    /\ file_tracker' = to_csv(df_tracker')
    /\ pending' = Tail(pending)
    /\ depth' = 0
    /\ UNCHANGED <<pc, now, listing, file_history, all_markets, cursor,
                   page_count, retry_count, served, failed>>
    /\ UNCHANGED <<df_history, other>>

\* lines 112-162: the body of the loop over the PENDING rows, when the
\* request of line 114 is answered r
ResolveWith(r) ==
    /\ pc = "resolve"
    /\ pending # <<>>
    /\ LET data == polite_request(r)
           index == Head(pending)
           row == df_tracker[index]
       IN  IF Truthy(data)
           THEN /\ m' = data.market
                /\ df_tracker' = [df_tracker EXCEPT ![index] = update_position(row, data.market)]
                /\ new_history_rows' =
                       Append(new_history_rows, history_row(now, row.ticker, data.market))
           ELSE UNCHANGED <<m, df_tracker, new_history_rows>>
    /\ pending' = Tail(pending)
    /\ depth' = 0
    /\ UNCHANGED <<pc, now, listing, file_tracker, file_history, all_markets, cursor,
                   page_count, retry_count, served, failed>>
    /\ UNCHANGED <<df_history, other>>

\* lines 111-162: one iteration of the loop over the PENDING rows
ResolveReply ==
    \E r \in MarketAnswers : ResolveWith(r)

\* mutant of pager_step: the cursor is tested before the page is appended
pager_step_cursor_first(st, data) ==
    IF ~Truthy(data)
    THEN [st EXCEPT !.retry_count = st.retry_count + 1,
                    !.done = (st.retry_count + 1 > RETRY_LIMIT)]
    ELSE IF ~data.has_markets \/ data.markets = <<>>
              \/ data.cursor = None \/ data.cursor = ""
         THEN [st EXCEPT !.retry_count = 0, !.done = TRUE]
         ELSE [all_markets |-> st.all_markets \o data.markets,
               cursor |-> data.cursor,
               page_count |-> st.page_count + 1,
               retry_count |-> 0,
               done |-> FALSE]

\* mutant of pager_step: the scan gives up one failure later
pager_step_one_more_retry(st, data) ==
    IF ~Truthy(data)
    THEN [st EXCEPT !.retry_count = st.retry_count + 1,
                    !.done = (st.retry_count + 1 > RETRY_LIMIT + 1)]
    ELSE IF ~data.has_markets \/ data.markets = <<>>
         THEN [st EXCEPT !.retry_count = 0, !.done = TRUE]
         ELSE [all_markets |-> st.all_markets \o data.markets,
               cursor |-> data.cursor,
               page_count |-> st.page_count + 1,
               retry_count |-> 0,
               done |-> (data.cursor = None \/ data.cursor = "")]

\* mutant of pager_step: a page that is served does not reset the counter
pager_step_counting_every_failure(st, data) ==
    IF ~Truthy(data)
    THEN [st EXCEPT !.retry_count = st.retry_count + 1,
                    !.done = (st.retry_count + 1 > RETRY_LIMIT)]
    ELSE IF ~data.has_markets \/ data.markets = <<>>
         THEN [st EXCEPT !.done = TRUE]
         ELSE [all_markets |-> st.all_markets \o data.markets,
               cursor |-> data.cursor,
               page_count |-> st.page_count + 1,
               retry_count |-> st.retry_count,
               done |-> (data.cursor = None \/ data.cursor = "")]

\* lines 47-77 for one value returned by polite_request: the locals of
\* fetch_all_active_markets after the iteration; done is the `break`
pager_step(st, data) ==
    IF ~Truthy(data)
    THEN [st EXCEPT !.retry_count = st.retry_count + 1,
                    !.done = (st.retry_count + 1 > RETRY_LIMIT)]
    ELSE IF ~data.has_markets \/ data.markets = <<>>
         THEN [st EXCEPT !.retry_count = 0, !.done = TRUE]
         ELSE [all_markets |-> st.all_markets \o data.markets,
               cursor |-> data.cursor,
               page_count |-> st.page_count + 1,
               retry_count |-> 0,
               done |-> (data.cursor = None \/ data.cursor = "")]

\* lines 40-43
pager_start ==
    [all_markets |-> <<>>, cursor |-> None, page_count |-> 0, retry_count |-> 0,
     done |-> FALSE]

\* fetch_all_active_markets run to its return against the pages upstream
\* serves, when the request for page p comes back absent fails[p] times in
\* a row before it is answered
RECURSIVE pager_loop(_, _, _)
pager_loop(st, pages, fails) ==
    IF st.done THEN st
    ELSE LET p == PageIndex(st.cursor)
             data == IF st.retry_count < fails[p] THEN Absent ELSE pages[p]
         IN  pager_loop(pager_step(st, data), pages, fails)

fetch_all_active_markets(pages, fails) ==
    pager_loop(pager_start, pages, fails).all_markets

\* line 171, seen from run_hourly_cycle: the loop over the PENDING rows is
\* over and fetch_all_active_markets returns; the requests for one page q of
\* the listing come back absent n times in a row
FetchAll ==
    /\ pc = "resolve"
    /\ pending = <<>>
    /\ \E q \in 1..Len(listing), n \in {0, RETRY_LIMIT, RETRY_LIMIT + 1} :
        LET fails == [p \in 1..Len(listing) |-> IF p = q THEN n ELSE 0]
        IN  all_markets' = fetch_all_active_markets(listing, fails)
    /\ pc' = "scan"
    /\ m' = NoMarket
    /\ UNCHANGED <<now, listing, file_tracker, file_history, df_tracker, pending,
                   new_history_rows, depth, cursor, page_count, retry_count,
                   served, failed>>
    /\ UNCHANGED <<df_history, other>>

\* lines 47-77, seen from inside fetch_all_active_markets: one iteration of
\* its loop; pc = "scan" is the break, with all_markets the value returned
FetchReply ==
    /\ pc = "fetch"
    /\ \E r \in ListingAnswers(cursor) :
        LET data == polite_request(r)
            st == pager_step([all_markets |-> all_markets, cursor |-> cursor,
                              page_count |-> page_count, retry_count |-> retry_count,
                              done |-> FALSE], data)
        IN  /\ all_markets' = st.all_markets
            /\ cursor' = st.cursor
            /\ page_count' = st.page_count
            /\ retry_count' = st.retry_count
            /\ pc' = IF st.done THEN "scan" ELSE "fetch"
            /\ served' = IF Truthy(data) THEN served + 1 ELSE served
            /\ failed' = (failed \/ ~Truthy(data))
    /\ depth' = 0
    /\ UNCHANGED <<now, listing, file_tracker, file_history, df_tracker, pending, m,
                   new_history_rows>>
    /\ UNCHANGED <<df_history, other>>

\* lines 172-221: scan the markets returned, append the new rows, save both files
ScanAndSave ==
    /\ pc = "scan"
    /\ LET new_tracker_rows == scan_markets(all_markets, df_tracker, now)
       IN  /\ file_tracker' = to_csv(concat_rows(df_tracker, new_tracker_rows))
           /\ file_history' = df_history + Len(new_history_rows) + Len(new_tracker_rows)
    /\ pc' = "idle"
    /\ df_tracker' = <<>>
    /\ pending' = <<>>
    /\ new_history_rows' = <<>>
    /\ all_markets' = <<>>
    /\ cursor' = None
    /\ page_count' = 0
    /\ retry_count' = 0
    /\ served' = 0
    /\ failed' = FALSE
    /\ UNCHANGED <<now, listing, m, depth>>
    /\ df_history' = 0
    /\ UNCHANGED other

(* The cycles of run_hourly_cycle, one after the other. *)
Next ==
    \/ StartCycle
    \/ RateLimited
    \/ ResolveReply
    \/ FetchAll
    \/ ScanAndSave

Spec == Init /\ [][Next]_vars

\* the process stops on an exception that nothing catches, or is killed,
\* anywhere between the load and line 214: its memory is kept in the state
\* as it was when it stopped, and nothing is written
Crash ==
    /\ pc \in {"resolve", "scan"}
    /\ pc' = "crashed"
    /\ UNCHANGED <<now, listing, file_tracker, file_history, df_tracker, pending, m,
                   new_history_rows, depth, all_markets, cursor, page_count,
                   retry_count, served, failed>>
    /\ UNCHANGED <<df_history, other>>

(* The cycles, when a run may stop before it saves. *)
NextCrash ==
    \/ StartCycle
    \/ RateLimited
    \/ ResolveReply
    \/ FetchAll
    \/ ScanAndSave
    \/ Crash

SpecCrash == Init /\ [][NextCrash]_vars

\* mutant of cycle_result: only the rows of the scan are written
cycle_result_new_rows_only(df, t, ans, markets) ==
    LET resolved == [i \in 1..Len(df) |->
                        IF df[i].status = "PENDING" /\ Truthy(polite_request(ans[i]))
                        THEN update_position(df[i], polite_request(ans[i]).market)
                        ELSE df[i]]
    IN  scan_markets(markets, resolved, t)

\* lines 101-211 in one piece: df_tracker at line 214 for the ledger df
\* loaded at time t, when the re-fetch of row i is answered ans[i] and
\* fetch_all_active_markets returns markets
cycle_result(df, t, ans, markets) ==
    LET resolved == [i \in 1..Len(df) |->
                        IF df[i].status = "PENDING" /\ Truthy(polite_request(ans[i]))
                        THEN update_position(df[i], polite_request(ans[i]).market)
                        ELSE df[i]]
    IN  concat_rows(resolved, scan_markets(markets, resolved, t))

\* lines 143-149 and 207 in one piece: the number of new_history_rows
cycle_history(df, t, ans, markets) ==
    Cardinality({i \in 1..Len(df) :
                    df[i].status = "PENDING" /\ Truthy(polite_request(ans[i]))})
    + Len(cycle_result(df, t, ans, markets)) - Len(df)

\* the answers to the re-fetches of a cycle, one for each PENDING row of df:
\* a market, or the exception that stands for every absent answer; the rows
\* that are not re-fetched carry the exception
NoAnswer == [status_code |-> 0, json |-> EmptyJson]

RowAnswers(row) ==
    IF row.status = "PENDING"
    THEN {r \in MarketAnswers : Truthy(polite_request(r))} \cup {NoAnswer}
    ELSE {NoAnswer}

RECURSIVE CycleAnswers(_)
CycleAnswers(df) ==
    IF df = <<>> THEN {<<>>}
    ELSE { Append(ans, r) : ans \in CycleAnswers(SubSeq(df, 1, Len(df) - 1)),
                            r \in RowAnswers(df[Len(df)]) }

\* what fetch_all_active_markets can return in a cycle (see FetchAll)
CycleMarkets ==
    { fetch_all_active_markets(listing,
                               [p \in 1..Len(listing) |-> IF p = q THEN n ELSE 0]) :
        q \in 1..Len(listing), n \in {0, RETRY_LIMIT, RETRY_LIMIT + 1} }

\* lines 83-103 in a second process, started while the first one is at any
\* point of its cycle or between two cycles
OtherLoad ==
    /\ other.pc = "idle"
    /\ other' = [other EXCEPT !.pc = "loaded",
                              !.df_tracker = read_csv(file_tracker),
                              !.df_history = file_history,
                              !.now = now,
                              !.during = (pc \in {"resolve", "scan"})]
    /\ UNCHANGED <<pc, now, listing, file_tracker, file_history, df_tracker, pending, m,
                   new_history_rows, depth, all_markets, cursor, page_count,
                   retry_count, served, failed, df_history>>

\* lines 104-221 in the second process: what it does between its load and
\* its save touches its own memory only, so it is taken in one step with the
\* save; overwrote, saved_at and saved_during record the save
OtherSave ==
    /\ other.pc = "loaded"
    /\ \E ans \in CycleAnswers(other.df_tracker), markets \in CycleMarkets :
            /\ file_tracker' = to_csv(cycle_result(other.df_tracker, other.now, ans, markets))
            /\ file_history' = other.df_history
                                   + cycle_history(other.df_tracker, other.now, ans, markets)
    /\ other' = [other EXCEPT !.pc = "saved",
                              !.df_tracker = <<>>,
                              !.df_history = 0,
                              !.overwrote = file_tracker,
                              !.saved_at = now,
                              !.saved_during = (pc \in {"resolve", "scan"})]
    /\ UNCHANGED <<pc, now, listing, df_tracker, pending, m, new_history_rows, depth,
                   all_markets, cursor, page_count, retry_count, served, failed,
                   df_history>>

\* lines 104-221 in the first process, in one step as in the second
RunAndSave ==
    /\ pc = "resolve"
    /\ \E ans \in CycleAnswers(df_tracker), markets \in CycleMarkets :
            /\ file_tracker' = to_csv(cycle_result(df_tracker, now, ans, markets))
            /\ file_history' = df_history + cycle_history(df_tracker, now, ans, markets)
    /\ pc' = "idle"
    /\ df_tracker' = <<>>
    /\ pending' = <<>>
    /\ df_history' = 0
    /\ UNCHANGED <<now, listing, m, new_history_rows, depth, all_markets, cursor,
                   page_count, retry_count, served, failed, other>>

(* Two invocations, each from its load to its save in one step, that       *)
(* overlap or not, over a listing of two pages with one market each.       *)
OverlapListings ==
    { l \in CycleListings :
        /\ Len(l) = 2
        /\ l[1].markets # <<>> /\ l[2].markets # <<>>
        /\ l[1].markets # l[2].markets }

InitOverlap == Init /\ listing \in OverlapListings

NextOverlap ==
    \/ StartCycle
    \/ RunAndSave
    \/ OtherLoad
    \/ OtherSave

SpecOverlap == InitOverlap /\ [][NextOverlap]_vars

(* fetch_all_active_markets request by request, in the first cycle. *)
InitPager ==
    /\ pc = "fetch"
    /\ now = 1
    /\ listing \in Listings
    /\ file_tracker = <<>>
    /\ file_history = 0
    /\ df_tracker = <<>>
    /\ pending = <<>>
    /\ m = NoMarket
    /\ new_history_rows = <<>>
    /\ depth = 0
    /\ all_markets = pager_start.all_markets
    /\ cursor = pager_start.cursor
    /\ page_count = pager_start.page_count
    /\ retry_count = pager_start.retry_count
    /\ served = 0
    /\ failed = FALSE
    /\ df_history = 0
    /\ other = NoOther

NextPager ==
    \/ RateLimited
    \/ FetchReply

SpecPager == InitPager /\ [][NextPager]_vars

(* The scan of one listed market, for every pair of prices: the state in    *)
(* which fetch_all_active_markets has returned the single market of a      *)
(* one-page listing to the first cycle.                                    *)
Prices == 0..100
SelectMarkets == { Market("A", "Will A happen?", b, a, "T10") : b \in Prices, a \in Prices }

InitSelect ==
    /\ pc = "scan"
    /\ now = 1
    /\ \E mk \in SelectMarkets :
        /\ listing = <<Page(TRUE, <<mk>>, None)>>
        /\ all_markets = <<mk>>
    /\ file_tracker = <<>>
    /\ file_history = 0
    /\ df_tracker = <<>>
    /\ pending = <<>>
    /\ m = NoMarket
    /\ new_history_rows = <<>>
    /\ depth = 0
    /\ cursor = None
    /\ page_count = 0
    /\ retry_count = 0
    /\ served = 0
    /\ failed = FALSE
    /\ df_history = 0
    /\ other = NoOther

NextSelect == ScanAndSave

SpecSelect == InitSelect /\ [][NextSelect]_vars

(* The scan of a listing of two markets: one of the catalogue and one with  *)
(* partial data, in either order.                                          *)
PartialMarkets ==
    LET mkA == CHOOSE c \in Catalogue : c.ticker = "A"
    IN  { Without(mkA, "close_time") }
        \cup { [mkA EXCEPT !.close_time = c] : c \in {"", "soon"} }
        \cup { Without([mkA EXCEPT !.yes_bid = 0, !.yes_ask = a], "yes_bid") : a \in Prices }
        \cup { Without([mkA EXCEPT !.yes_bid = b, !.yes_ask = 0], "yes_ask") : b \in Prices }

InitPartial ==
    /\ pc = "scan"
    /\ now = 1
    /\ \E part \in PartialMarkets, mk \in {c \in Catalogue : c.ticker = "B"} :
        \E markets \in {<<part, mk>>, <<mk, part>>} :
            /\ listing = <<Page(TRUE, markets, None)>>
            /\ all_markets = markets
    /\ file_tracker = <<>>
    /\ file_history = 0
    /\ df_tracker = <<>>
    /\ pending = <<>>
    /\ m = NoMarket
    /\ new_history_rows = <<>>
    /\ depth = 0
    /\ cursor = None
    /\ page_count = 0
    /\ retry_count = 0
    /\ served = 0
    /\ failed = FALSE
    /\ df_history = 0
    /\ other = NoOther

NextPartial == ScanAndSave

SpecPartial == InitPartial /\ [][NextPartial]_vars

(* The cycles that follow the scan of that market: its position, if the    *)
(* scan opened one, is re-fetched until it settles.                        *)
SpecEntry == InitSelect /\ [][Next]_vars

---------------------------------------------------------------------------
(* Properties of the persisted ledger *)

RowsOf(ledger) == 1..Len(ledger)
TickersOf(ledger) == {ledger[i].ticker : i \in RowsOf(ledger)}
RowsWith(ledger, ticker) == {i \in RowsOf(ledger) : ledger[i].ticker = ticker}

\* C1: no two rows of the persisted tracker have the same ticker, whatever
\* the listing holds.
C1_UniqueTickers ==
    \A i \in RowsOf(file_tracker) : \A j \in RowsOf(file_tracker) :
        file_tracker[i].ticker = file_tracker[j].ticker => i = j

\* C2: a row of the persisted ledger keeps its place and its ticker, its
\* status is PENDING or SETTLED, and once SETTLED it stays SETTLED.
C2_MonotonicStatus ==
    [][\A i \in RowsOf(file_tracker) :
          /\ i \in RowsOf(file_tracker')
          /\ file_tracker'[i].ticker = file_tracker[i].ticker
          /\ file_tracker'[i].status \in {"PENDING", "SETTLED"}
          /\ file_tracker[i].status = "SETTLED" => file_tracker'[i].status = "SETTLED"]_vars

C2_Witness ==
    /\ pc = "idle"
    /\ now = MaxCycles
    /\ \E i \in RowsOf(file_tracker) : \E j \in RowsOf(file_tracker) :
        /\ file_tracker[i].status = "SETTLED" /\ file_tracker[i].open_date < now - 1
        /\ file_tracker[j].open_date > file_tracker[i].open_date

\* C3: result and pnl are populated (result is YES or NO, pnl is not the 0
\* a row is created with) exactly in the SETTLED rows, in the file and in
\* memory; a PENDING row has the empty result and pnl 0.
Unpopulated(row) == row.result \in {"", NaN} /\ row.pnl = 0
Populated(row) == row.result \in {"YES", "NO"} /\ row.pnl # 0

C3_PopulatedIffSettled ==
    /\ \A i \in RowsOf(file_tracker) :
        /\ file_tracker[i].status = "SETTLED" => Populated(file_tracker[i])
        /\ file_tracker[i].status # "SETTLED" =>
              file_tracker[i].status = "PENDING" /\ Unpopulated(file_tracker[i])
    /\ \A i \in RowsOf(df_tracker) :
        /\ df_tracker[i].status = "SETTLED" => Populated(df_tracker[i])
        /\ df_tracker[i].status # "SETTLED" =>
              df_tracker[i].status = "PENDING" /\ Unpopulated(df_tracker[i])

C3_Witness ==
    /\ pc = "idle"
    /\ \E i \in RowsOf(file_tracker) : \E j \in RowsOf(file_tracker) :
        /\ file_tracker[i].status = "SETTLED"
        /\ file_tracker[j].status = "PENDING" /\ file_tracker[j].open_date = now

\* C4: the loop over the PENDING rows never visits a SETTLED row, and a
\* SETTLED row keeps every field, in memory during a cycle and in the file
\* from one save to the next.
C4_FrozenAfterSettlement ==
    [][/\ \A k \in 1..Len(pending) :
            /\ df_tracker[pending[k]].status = "PENDING"
            /\ file_tracker[pending[k]].status = "PENDING"
       /\ \A i \in RowsOf(file_tracker) :
            file_tracker[i].status = "SETTLED" =>
                i \in RowsOf(file_tracker') /\ file_tracker'[i] = file_tracker[i]
       /\ \A i \in RowsOf(df_tracker) \cap RowsOf(df_tracker') :
            df_tracker[i].status = "SETTLED" => df_tracker'[i] = df_tracker[i]]_vars

C4_Witness ==
    /\ pc = "resolve"
    /\ pending = <<>>
    /\ Len(new_history_rows) > 0
    /\ \E i \in RowsOf(file_tracker) :
        /\ file_tracker[i].status = "SETTLED"
        /\ file_tracker[i].current_price # file_tracker[i].entry_cost
        /\ df_tracker[i] = file_tracker[i]

\* C5: when a row goes from PENDING to SETTLED on the remote result r, its
\* pnl is (100 - entry_cost) - FEE_CENTS if r names its fav_side and
\* -entry_cost - FEE_CENTS otherwise.
NamesSide(r, side) == (r = "yes" /\ side = "YES") \/ (r = "no" /\ side = "NO")

C5_PnlCorrect ==
    [][\A i \in RowsOf(df_tracker) \cap RowsOf(df_tracker') :
          (df_tracker[i].status = "PENDING" /\ df_tracker'[i].status = "SETTLED") =>
              /\ m'.result \in {"yes", "no"}
              /\ df_tracker'[i].entry_cost = df_tracker[i].entry_cost
              /\ NamesSide(m'.result, df_tracker[i].fav_side) =>
                    df_tracker'[i].pnl = (100 - df_tracker[i].entry_cost) - 2
              /\ ~NamesSide(m'.result, df_tracker[i].fav_side) =>
                    df_tracker'[i].pnl = (0 - df_tracker[i].entry_cost) - 2]_vars

C5_Witness ==
    /\ pc = "resolve"
    /\ m.result = "no"
    /\ \E i \in RowsOf(df_tracker) : \E j \in RowsOf(df_tracker) :
        /\ df_tracker[i].fav_side = "NO" /\ df_tracker[i].entry_cost = 85
        /\ df_tracker[i].status = "SETTLED" /\ df_tracker[i].pnl = 13
        /\ df_tracker[j].fav_side = "YES" /\ df_tracker[j].status = "SETTLED"
        /\ df_tracker[j].pnl = 0 - 99

\* C7: the scan adds no row for a ticker that the ledger held at the start
\* of the cycle, PENDING or SETTLED.
C7_TrackedRejected ==
    [][pc = "scan" =>
          \A t \in TickersOf(file_tracker) :
              RowsWith(file_tracker', t) = RowsWith(file_tracker, t)]_vars

C7_Witness ==
    /\ pc = "scan"
    /\ \E k \in 1..Len(all_markets) : \E i \in RowsOf(file_tracker) :
        /\ all_markets[k].ticker = file_tracker[i].ticker
        /\ file_tracker[i].status = "SETTLED"
        /\ accepted(all_markets[k], {}, now)

---------------------------------------------------------------------------
(* Properties of the scan of one market *)

AddedRows == SubSeq(file_tracker', Len(file_tracker) + 1, Len(file_tracker'))

\* C6: for an untracked market closing inside the window, the row the scan
\* adds is YES at yes_ask when yes_bid >= MIN_PROBABILITY, NO at
\* 100 - yes_bid when yes_bid <= 100 - MIN_PROBABILITY, and no row is added
\* for a yes_bid in between; the row is added exactly when that cost lies in
\* MIN_PROBABILITY..MAX_PROBABILITY.
C6_FavoriteDetermination ==
    [][(/\ pc = "scan"
        /\ Len(all_markets) = 1
        /\ all_markets[1].ticker \notin TickersOf(file_tracker)
        /\ all_markets[1].close_time = "T10") =>
          LET bid == all_markets[1].yes_bid
              ask == all_markets[1].yes_ask
              InBand(cost) == MIN_PROBABILITY <= cost /\ cost <= MAX_PROBABILITY
          IN  /\ Len(AddedRows) <= 1
              /\ bid >= MIN_PROBABILITY =>
                    /\ Len(AddedRows) = 1 <=> InBand(ask)
                    /\ \A i \in 1..Len(AddedRows) :
                          AddedRows[i].fav_side = "YES" /\ AddedRows[i].entry_cost = ask
              /\ (bid < MIN_PROBABILITY /\ bid <= 100 - MIN_PROBABILITY) =>
                    /\ Len(AddedRows) = 1 <=> InBand(100 - bid)
                    /\ \A i \in 1..Len(AddedRows) :
                          AddedRows[i].fav_side = "NO" /\ AddedRows[i].entry_cost = 100 - bid
              /\ (100 - MIN_PROBABILITY < bid /\ bid < MIN_PROBABILITY) =>
                    AddedRows = <<>>]_vars

C6_Witness ==
    /\ pc = "idle"
    /\ Len(file_tracker) = 1
    /\ file_tracker[1].fav_side = "NO"
    /\ file_tracker[1].entry_cost = 80
    /\ listing[1].markets[1].yes_bid = 20

---------------------------------------------------------------------------
(* Properties of fetch_all_active_markets *)

RECURSIVE MarketsOfPages(_, _)
MarketsOfPages(pages, n) ==
    IF n = 0 THEN <<>> ELSE MarketsOfPages(pages, n - 1) \o pages[n].markets

NoCursor(page) == page.cursor = None \/ page.cursor = ""
NoMarkets(page) == ~page.has_markets \/ page.markets = <<>>
FirstPage(pages, Last(_)) ==
    CHOOSE k \in 1..Len(pages) : Last(pages[k]) /\ \A j \in 1..(k - 1) : ~Last(pages[j])

\* C8 as stated: when no listing request fails and page k is the first page
\* without a cursor, the scan returns the markets of pages 1..k and has
\* requested no page after page k.
C8_StopsAtFirstPageWithoutCursor ==
    (pc = "scan" /\ ~failed) =>
        LET k == FirstPage(listing, NoCursor)
        IN  all_markets = MarketsOfPages(listing, k) /\ served <= k

\* C8 as amended: when no listing request fails and page k is the first page
\* without a cursor or without markets (no markets key, or an empty list),
\* the scan returns the markets of pages 1..k and has requested k pages;
\* before it returns it has requested at most k.
LastPage(page) == NoCursor(page) \/ NoMarkets(page)

C8_StopsAtFirstLastPage ==
    ~failed =>
        LET k == FirstPage(listing, LastPage)
        IN  /\ served <= k
            /\ pc = "scan" => all_markets = MarketsOfPages(listing, k) /\ served = k

C8_Witness ==
    /\ pc = "scan"
    /\ ~failed
    /\ served = 2
    /\ Len(all_markets) = 2
    /\ all_markets[1] # all_markets[2]

\* C9: the 4th consecutive absent answer ends the scan: no request follows
\* it, and the scan returns the markets of the pages answered before.
C9_BoundedAbort ==
    /\ retry_count <= 4
    /\ retry_count = 4 =>
          /\ pc = "scan"
          /\ depth = 0
          /\ ~ENABLED NextPager
          /\ all_markets = MarketsOfPages(listing, served)
          /\ page_count = served

C9_Witness ==
    /\ pc = "scan"
    /\ retry_count = 4
    /\ served = 1
    /\ Len(all_markets) = 1

\* C10: one call of polite_request issues at most two HTTP requests: it has
\* been answered 429 at most once.
C10_AtMostTwoRequests ==
    depth + 1 <= 2

---------------------------------------------------------------------------
(* Termination of the scan *)

\* the requests a scan may still issue when a call is answered 429 at most
\* once and a page fails at most RETRY_LIMIT times in a row: two per
\* attempt, RETRY_LIMIT + 1 attempts per page still to serve
Remaining ==
    IF pc # "fetch" THEN 0
    ELSE LET k == FirstPage(listing, LastPage)
         IN  2 * ((RETRY_LIMIT + 1) * (k - served) + (RETRY_LIMIT + 1 - retry_count))
                 + (1 - depth)

---------------------------------------------------------------------------
(* Properties of the loop over the PENDING rows *)

\* C12: when the re-fetch of a PENDING row comes back absent (another status
\* than 200, a transport failure, an empty body), no field of any row of the
\* ledger changes, in memory or in the file, no history row is added, and the
\* cycle goes on: the loop moves to the next PENDING row, which can be
\* re-fetched; once no row is left the next step is the fetch of the listing,
\* which leads to the scan, and the scan can save.
C12_AbsentLeavesRow ==
    /\ [][\A r \in MarketAnswers :
            (~Truthy(polite_request(r)) /\ ResolveWith(r)) =>
                /\ df_tracker' = df_tracker
                /\ file_tracker' = file_tracker
                /\ new_history_rows' = new_history_rows
                /\ file_history' = file_history
                /\ pc' = "resolve"
                /\ pending' = Tail(pending)]_vars
    /\ []((pc = "resolve" /\ pending # <<>>) => ENABLED ResolveReply)
    /\ [][(pc = "resolve" /\ pending = <<>>) => pc' = "scan"]_vars
    /\ [](pc = "scan" => ENABLED ScanAndSave)

\* the first of two PENDING rows was answered absent, the second with a quote
C12_Witness ==
    /\ pc = "resolve"
    /\ pending = <<>>
    /\ Len(pending_mask(file_tracker)) = 2
    /\ Len(new_history_rows) = 1
    /\ LET first == pending_mask(file_tracker)[1]
           second == pending_mask(file_tracker)[2]
       IN  /\ file_tracker[first].ticker # file_tracker[second].ticker
           /\ new_history_rows[1].ticker = file_tracker[second].ticker
           /\ df_tracker[first] = read_csv(file_tracker)[first]
           /\ df_tracker[second] # read_csv(file_tracker)[second]

\* C13: when a row goes from PENDING to SETTLED, its close_date is the `now`
\* of the cycle that settles it.
C13_ClosedAtSettlement ==
    [][\A i \in RowsOf(df_tracker) \cap RowsOf(df_tracker') :
          (df_tracker[i].status = "PENDING" /\ df_tracker'[i].status = "SETTLED") =>
              df_tracker'[i].close_date = now]_vars

---------------------------------------------------------------------------
(* Properties of the save *)

\* C14: a run that stops before line 214 writes nothing, and the next run
\* loads the ledger the last finished run saved; the file changes only when
\* a run finishes, and then to the ledger in memory after the whole loop
\* over the PENDING rows and the whole scan.
C14_CrashSafe ==
    [][/\ pc' = "crashed" =>
            file_tracker' = file_tracker /\ file_history' = file_history
       /\ pc = "crashed" =>
            file_tracker' = file_tracker /\ df_tracker' = read_csv(file_tracker)
       /\ file_tracker' # file_tracker =>
            /\ pc = "scan" /\ pc' = "idle"
            /\ pending = <<>>
            /\ file_tracker' =
                  to_csv(concat_rows(df_tracker,
                                     scan_markets(all_markets, df_tracker, now)))]_vars

\* the run stopped after it settled one row in memory and before it visited
\* the next one
C14_Witness ==
    /\ pc = "crashed"
    /\ pending # <<>>
    /\ \E i \in RowsOf(file_tracker) :
        file_tracker[i].status = "PENDING" /\ df_tracker[i].status = "SETTLED"

\* C15: after a re-fetch of a PENDING row that is answered with a market,
\* the row's current_price is the market's yes_bid when its fav_side is YES
\* and 100 - yes_ask when it is NO, and the history of the cycle has exactly
\* one more row: the cycle's now, the row's ticker and the market's yes_bid,
\* yes_ask and status as received.
C15_LiveValuation ==
    [][\A r \in MarketAnswers :
          (Truthy(polite_request(r)) /\ ResolveWith(r)) =>
              LET index == Head(pending)
                  fetched == r.json.market
              IN  /\ df_tracker[index].status = "PENDING"
                  /\ df_tracker[index].fav_side = "YES" =>
                        df_tracker'[index].current_price = fetched.yes_bid
                  /\ df_tracker[index].fav_side = "NO" =>
                        df_tracker'[index].current_price = 100 - fetched.yes_ask
                  /\ df_tracker[index].fav_side \in {"YES", "NO"}
                  /\ new_history_rows' =
                        Append(new_history_rows,
                               [timestamp |-> now, ticker |-> df_tracker[index].ticker,
                                yes_bid |-> fetched.yes_bid, yes_ask |-> fetched.yes_ask,
                                status |-> fetched.status])]_vars

\* a NO position and a YES position have both been re-priced on an active quote
C15_Witness ==
    /\ pc = "resolve"
    /\ pending = <<>>
    /\ Len(new_history_rows) = 2
    /\ \A k \in 1..2 : new_history_rows[k].status = "active" /\ new_history_rows[k].yes_ask = 93
    /\ \E i \in RowsOf(df_tracker) : \E j \in RowsOf(df_tracker) :
        /\ df_tracker[i].fav_side = "NO" /\ df_tracker[i].status = "PENDING"
        /\ df_tracker[i].current_price = 7 /\ df_tracker[i].entry_cost = 85
        /\ df_tracker[j].fav_side = "YES" /\ df_tracker[j].status = "PENDING"
        /\ df_tracker[j].current_price = 90 /\ df_tracker[j].entry_cost = 97

\* C16: when the market of a PENDING row is reported settled with a result
\* that is neither yes nor no, the row is still PENDING with the empty result
\* and pnl 0 after the re-fetch, it is saved so at the end of the cycle, and
\* the same holds in every later cycle with such an answer.
C16_VoidStalls ==
    [][/\ \A r \in MarketAnswers :
            (/\ Truthy(polite_request(r))
             /\ r.json.market.status = "settled"
             /\ r.json.market.result \notin {"yes", "no"}
             /\ ResolveWith(r)) =>
                /\ df_tracker'[Head(pending)].status = "PENDING"
                /\ Unpopulated(df_tracker'[Head(pending)])
       /\ \A i \in RowsOf(df_tracker) :
            (df_tracker[i].status = "PENDING" /\ (pending = <<>> \/ Head(pending) # i)) =>
                IF pc = "scan"
                THEN file_tracker'[i].status = "PENDING" /\ Unpopulated(file_tracker'[i])
                ELSE df_tracker'[i] = df_tracker[i]]_vars

\* a position opened two cycles ago is PENDING after a void answer
C16_Witness ==
    /\ pc = "resolve"
    /\ pending = <<>>
    /\ m.status = "settled" /\ m.result = "void"
    /\ Len(new_history_rows) = 1
    /\ new_history_rows[1].status = "settled"
    /\ \E i \in RowsOf(df_tracker) :
        /\ df_tracker[i].ticker = new_history_rows[1].ticker
        /\ df_tracker[i].open_date < now - 1
        /\ df_tracker[i].status = "PENDING" /\ Unpopulated(df_tracker[i])
        /\ \A j \in RowsOf(df_tracker) : j # i => df_tracker[j].status = "SETTLED"

---------------------------------------------------------------------------
(* Properties of the retries of fetch_all_active_markets *)

\* C17: a listing request that comes back absent leaves the cursor, the
\* markets collected and the page count as they were, so the next request
\* asks for the same page; a page that is served resets the failure counter
\* and its markets are appended; hence the requests ask for the pages in
\* order, the markets collected are those of the pages served, each once and
\* in order, and a scan that ends with fewer than 4 failures in a row has
\* reached the last page.
C17_RetryKeepsPosition ==
    /\ [][/\ (pc = "fetch" /\ depth' = 0 /\ served' = served) =>
                /\ retry_count' = retry_count + 1
                /\ cursor' = cursor
                /\ all_markets' = all_markets
                /\ page_count' = page_count
                /\ pc' = "fetch" <=> retry_count' <= RETRY_LIMIT
          /\ served' = served + 1 =>
                /\ retry_count' = 0
                /\ all_markets' = all_markets \o listing[served'].markets]_vars
    /\ [](pc = "fetch" => PageIndex(cursor) = served + 1)
    /\ [](all_markets = MarketsOfPages(listing, served))
    /\ [](pc = "scan" => retry_count = RETRY_LIMIT + 1
                            \/ served = FirstPage(listing, LastPage))

\* two pages have been served and collected although requests failed
C17_Witness ==
    /\ pc = "scan"
    /\ failed
    /\ retry_count = 0
    /\ served = 2
    /\ Len(all_markets) = 2
    /\ all_markets[1] = listing[1].markets[1]
    /\ all_markets[2] = listing[2].markets[1]
    /\ all_markets[1] # all_markets[2]

---------------------------------------------------------------------------
(* Properties of the positions the scan opens *)

InBand(cost) == MIN_PROBABILITY <= cost /\ cost <= MAX_PROBABILITY

\* C18: every row of the ledger, in the file and in memory, has an
\* entry_cost in MIN_PROBABILITY..MAX_PROBABILITY, hence above 0 and at most
\* 100; a row the scan adds is PENDING with current_price equal to its
\* entry_cost; and no step changes the entry_cost of a row: not a re-fetch,
\* not the save, not the load of the next cycle.
C18_EntryCostBand ==
    /\ [](\A i \in RowsOf(file_tracker) :
            InBand(file_tracker[i].entry_cost)
            /\ 0 < file_tracker[i].entry_cost /\ file_tracker[i].entry_cost <= 100)
    /\ [](\A i \in RowsOf(df_tracker) : InBand(df_tracker[i].entry_cost))
    /\ [][/\ \A i \in RowsOf(file_tracker') \ RowsOf(file_tracker) :
                /\ pc = "scan"
                /\ file_tracker'[i].status = "PENDING"
                /\ file_tracker'[i].current_price = file_tracker'[i].entry_cost
          /\ \A i \in RowsOf(file_tracker) :
                /\ i \in RowsOf(file_tracker')
                /\ file_tracker'[i].entry_cost = file_tracker[i].entry_cost
          /\ \A i \in RowsOf(df_tracker) \cap RowsOf(df_tracker') :
                df_tracker'[i].entry_cost = df_tracker[i].entry_cost
          /\ \A i \in RowsOf(df_tracker') :
                /\ i \in RowsOf(file_tracker)
                /\ df_tracker'[i].entry_cost = file_tracker[i].entry_cost]_vars

\* a NO position opened at the lower end of the band has been re-priced in
\* every later cycle
C18_Witness ==
    /\ pc = "idle"
    /\ now = MaxCycles
    /\ Len(file_tracker) = 1
    /\ file_tracker[1].fav_side = "NO"
    /\ file_tracker[1].entry_cost = MIN_PROBABILITY
    /\ file_tracker[1].current_price # file_tracker[1].entry_cost
    /\ file_tracker[1].open_date = 1

---------------------------------------------------------------------------
(* Properties of the scan of a listing with partial data *)

Partial(mk) ==
    \/ mk.missing \cap {"close_time", "yes_bid", "yes_ask"} # {}
    \/ ~Parses(mk.close_time)

\* C19: the scan adds no row for a listed market without a close time, with
\* a close time that does not parse, or without its yes_bid or its yes_ask;
\* it still adds the row of every other market of the listing that passes
\* the filter, and the cycle saves.
C19_PartialDataSkipped ==
    [][pc = "scan" =>
          /\ pc' = "idle"
          /\ \A k \in 1..Len(all_markets) :
                IF Partial(all_markets[k])
                THEN RowsWith(file_tracker', all_markets[k].ticker) = {}
                ELSE accepted(all_markets[k], TickersOf(file_tracker), now) =>
                        RowsWith(file_tracker', all_markets[k].ticker) # {}]_vars

---------------------------------------------------------------------------
(* Properties of two invocations on the same files *)

\* the step keeps every row of the file in its place and every SETTLED row
\* as it is
KeepsEveryRow ==
    \A i \in RowsOf(file_tracker) :
        /\ i \in RowsOf(file_tracker')
        /\ file_tracker'[i].ticker = file_tracker[i].ticker
        /\ file_tracker[i].status = "SETTLED" => file_tracker'[i] = file_tracker[i]

\* the file the step writes is made of the ledger df its writer loaded at
\* time t: the rows of df, each SETTLED row as loaded, then rows opened at t
WrittenFrom(df, t) ==
    /\ Len(file_tracker') >= Len(df)
    /\ \A i \in RowsOf(df) :
        /\ file_tracker'[i].ticker = df[i].ticker
        /\ df[i].status = "SETTLED" => file_tracker'[i] = to_csv(<<df[i]>>)[1]
    /\ \A i \in RowsOf(file_tracker') \ RowsOf(df) :
        file_tracker'[i].status = "PENDING" /\ file_tracker'[i].open_date = t

\* the first invocation has saved since the second one loaded
SavedSinceOtherLoad ==
    IF other.during
    THEN now > other.now \/ pc = "idle"
    ELSE now > other.now + 1 \/ (now = other.now + 1 /\ pc = "idle")

\* the second invocation has saved since the first one loaded
OtherSavedSinceLoad ==
    other.pc = "saved" /\ other.saved_during /\ other.saved_at = now

\* C20: the file changes only when an invocation saves, and what it then
\* holds is made of what that invocation loaded, whatever the file held just
\* before: the last writer wins. A save drops a row or a settlement of the
\* file only if the other invocation saved after the saver had loaded; when
\* each invocation loads after the save of the one before, no save drops
\* anything.
C20_LastWriterWins ==
    [][/\ file_tracker' # file_tracker =>
            \/ pc = "resolve" /\ pc' = "idle"
            \/ other.pc = "loaded" /\ other'.pc = "saved"
       /\ (pc = "resolve" /\ pc' = "idle") =>
            /\ WrittenFrom(df_tracker, now)
            /\ ~KeepsEveryRow => OtherSavedSinceLoad
       /\ (other.pc = "loaded" /\ other'.pc = "saved") =>
            /\ WrittenFrom(other.df_tracker, other.now)
            /\ ~KeepsEveryRow => SavedSinceOtherLoad]_vars

\* the second invocation, the last to save, has overwritten a settlement and
\* a new position of the first one
C20_Witness ==
    /\ other.pc = "saved"
    /\ Len(other.overwrote) > Len(file_tracker)
    /\ other.overwrote[Len(other.overwrote)].ticker \notin TickersOf(file_tracker)
    /\ \E i \in RowsOf(file_tracker) :
        /\ other.overwrote[i].status = "SETTLED"
        /\ file_tracker[i].ticker = other.overwrote[i].ticker
        /\ file_tracker[i].status = "PENDING"

====
